---- MODULE Spec2Model ----
(***************************************************************************)
(* hetcall (src/hetcall.py): the command-line wrapper that derives one     *)
(* configuration per BAM file, writes it to a YAML artifact and drives     *)
(* snakemake once per sample.                                              *)
(*                                                                         *)
(* Text is modelled as sequences of one-character strings, so that strip,  *)
(* split, startswith, float and the path functions are computed as Python  *)
(* computes them.  An optional value (Python None or a value) is a         *)
(* sequence of length 0 or 1.  Real numbers are held in thousandths.       *)
(***************************************************************************)
EXTENDS Integers, Sequences, FiniteSets, TLC

\* ------------------------------------------------------------------ bounds

\* Longest sample-list file, in lines.
MaxBamLines == 3
\* Longest threshold / ROH list file, in lines.
MaxNumLines == 2

\* ------------------------------------------------------------ Python values

None == << >>
Some(v) == << v >>

\* Python truthiness of an optional string or list: None, "" and [] are false.
Truthy(opt) == opt # None /\ opt[1] # << >>

Min(a, b) == IF a < b THEN a ELSE b
Max(a, b) == IF a > b THEN a ELSE b

\* -------------------------------------------------------------------- text

Whitespace == {" ", "\t"}
Digits == {"0", "1", "2", "3", "4", "5", "6", "7", "8", "9"}

RECURSIVE LStrip(_)
LStrip(s) ==
    IF s # << >> /\ Head(s) \in Whitespace THEN LStrip(Tail(s)) ELSE s

RECURSIVE RStrip(_)
RStrip(s) ==
    IF s # << >> /\ s[Len(s)] \in Whitespace
    THEN RStrip(SubSeq(s, 1, Len(s) - 1))
    ELSE s

\* str.strip()
Strip(s) == RStrip(LStrip(s))

\* str.startswith('#')
StartsWithHash(s) == s # << >> /\ Head(s) = "#"

\* str.lower() on the letters the prompt's answers use
LowerChar(c) == IF c = "Y" THEN "y" ELSE IF c = "E" THEN "e"
                ELSE IF c = "S" THEN "s" ELSE IF c = "N" THEN "n"
                ELSE IF c = "O" THEN "o" ELSE c
Lower(s) == [i \in 1..Len(s) |-> LowerChar(s[i])]

\* The first whitespace-delimited word of s (s has no leading whitespace).
RECURSIVE FirstWord(_)
FirstWord(s) ==
    IF s = << >> \/ Head(s) \in Whitespace THEN << >>
    ELSE << Head(s) >> \o FirstWord(Tail(s))

\* str.split(): the words of s, split on runs of whitespace.
RECURSIVE Split(_)
Split(s) ==
    LET t == LStrip(s) IN
    IF t = << >> THEN << >>
    ELSE LET w == FirstWord(t) IN
         << w >> \o Split(SubSeq(t, Len(w) + 1, Len(t)))

\* Position of the last occurrence of character c in s, 0 if none.
RECURSIVE LastIndex(_, _)
LastIndex(s, c) ==
    IF s = << >> THEN 0
    ELSE IF s[Len(s)] = c THEN Len(s)
    ELSE LastIndex(SubSeq(s, 1, Len(s) - 1), c)

\* os.path.basename(p): what follows the last '/'.
Basename(p) == SubSeq(p, LastIndex(p, "/") + 1, Len(p))

\* os.path.splitext(name)[0]: the name without its last extension; leading
\* dots are no extension.
SplitextRoot(name) ==
    LET dot == LastIndex(name, ".") IN
    IF dot > 0 /\ \E i \in 1..(dot - 1) : name[i] # "."
    THEN SubSeq(name, 1, dot - 1)
    ELSE name

\* float(text) succeeds: an optional sign, then digits with at most one
\* point and at least one digit.  (Exponents, inf, nan and underscores use
\* characters outside the alphabet of the modelled files.)
IsFloat(text) ==
    LET t == Strip(text)
        u == IF t # << >> /\ Head(t) \in {"+", "-"} THEN Tail(t) ELSE t
    IN  /\ \A i \in 1..Len(u) : u[i] \in Digits \cup {"."}
        /\ \E i \in 1..Len(u) : u[i] \in Digits
        /\ Cardinality({i \in 1..Len(u) : u[i] = "."}) <= 1

DigitValue(c) ==
    CASE c = "0" -> 0 [] c = "1" -> 1 [] c = "2" -> 2 [] c = "3" -> 3
      [] c = "4" -> 4 [] c = "5" -> 5 [] c = "6" -> 6 [] c = "7" -> 7
      [] c = "8" -> 8 [] c = "9" -> 9

RECURSIVE DigitsValue(_)
DigitsValue(ds) ==
    IF ds = << >> THEN 0
    ELSE 10 * DigitsValue(SubSeq(ds, 1, Len(ds) - 1)) + DigitValue(ds[Len(ds)])

\* float(text), in thousandths (three decimals are kept).
FloatValue(text) ==
    LET t == Strip(text)
        neg == t # << >> /\ Head(t) = "-"
        u == IF t # << >> /\ Head(t) \in {"+", "-"} THEN Tail(t) ELSE t
        dot == LastIndex(u, ".")
        whole == IF dot = 0 THEN u ELSE SubSeq(u, 1, dot - 1)
        frac == IF dot = 0 THEN << >> ELSE SubSeq(u, dot + 1, Len(u))
        frac3 == SubSeq(frac \o << "0", "0", "0" >>, 1, 3)
        v == 1000 * DigitsValue(whole) + DigitsValue(frac3)
    IN  IF neg THEN 0 - v ELSE v


DigitChar(d) ==
    CASE d = 0 -> "0" [] d = 1 -> "1" [] d = 2 -> "2" [] d = 3 -> "3"
      [] d = 4 -> "4" [] d = 5 -> "5" [] d = 6 -> "6" [] d = 7 -> "7"
      [] d = 8 -> "8" [] d = 9 -> "9"

RECURSIVE StrNat(_)
StrNat(n) ==
    IF n < 10 THEN << DigitChar(n) >>
    ELSE StrNat(n \div 10) \o << DigitChar(n % 10) >>

\* str(n) of an integer.
Str(n) == IF n < 0 THEN << "-" >> \o StrNat(0 - n) ELSE StrNat(n)

\* ---------------------------------------------------------- read_file_list

\* `if line and not line.startswith('#')`, on the stripped line.
Usable(line) == Strip(line) # << >> /\ ~StartsWithHash(Strip(line))

\* One sample-list line: the path, then the given prefix or the path's base
\* name without its extension.
BamEntry(line) ==
    LET parts == Split(Strip(line))
        bam_path == parts[1]
    IN  << bam_path,
           IF Len(parts) > 1 THEN parts[2]
           ELSE SplitextRoot(Basename(bam_path)) >>

\* The loop over the lines: the items collected, or the first invalid line.
RECURSIVE ReadLines(_, _, _)
ReadLines(lines, list_type, items) ==
    IF lines = << >> THEN [ok |-> TRUE, items |-> items]
    ELSE IF ~Usable(Head(lines)) THEN ReadLines(Tail(lines), list_type, items)
    ELSE IF list_type = "bams"
         THEN ReadLines(Tail(lines), list_type, Append(items, BamEntry(Head(lines))))
    ELSE IF IsFloat(Head(lines))
         THEN ReadLines(Tail(lines), list_type, Append(items, FloatValue(Head(lines))))
    ELSE [ok |-> FALSE, items |-> << >>]

\* A reading that drops the lines float() rejects instead of stopping.
read_file_list_lenient(file, list_type) ==
    LET good == SelectSeq(file.lines,
                          LAMBDA l : list_type = "bams" \/ ~Usable(l) \/ IsFloat(l))
        r == ReadLines(good, list_type, << >>)
    IN  IF ~file.exists THEN [ok |-> FALSE, items |-> << >>]
        ELSE IF r.items = << >> THEN [ok |-> FALSE, items |-> << >>]
        ELSE r

\* read_file_list(filepath, list_type): ok and the items, or not ok where
\* the code leaves with sys.exit(1) (no file, an invalid value, no entry).
read_file_list(file, list_type) ==
    LET r == ReadLines(file.lines, list_type, << >>) IN
    IF ~file.exists THEN [ok |-> FALSE, items |-> << >>]
    ELSE IF ~r.ok THEN [ok |-> FALSE, items |-> << >>]
    ELSE IF r.items = << >> THEN [ok |-> FALSE, items |-> << >>]
    ELSE r


\* ------------------------------------------------------------------- state

VARIABLES
    argv,           \* the options given on the command line
    disk,           \* the list files: path -> [exists, lines]
    fs,             \* the configuration artifacts on disk: path -> document
    pc,             \* position in main()
    thresholds,     \* main's thresholds
    roh_mins,       \* main's roh_mins
    base_cfg,       \* main's base_cfg (None until built)
    bam_list,       \* main's bam_list
    idx,            \* position of the batch loop in bam_list
    success_count,  \* main's success_count
    success,        \* main's success (single BAM), None until returned
    attempts,       \* the (bam_path, prefix) of every run_single_bam call
    outcomes,       \* how each of these calls ended
    cmds,           \* every snakemake command built (and printed)
    engine_calls,   \* every subprocess.call made: [cmd, code]
    prompts,        \* number of input() prompts made
    answer,         \* the line the last prompt read, None if none was read
    report,         \* the "Completed k/N" line, None until printed
    exit_status,    \* the process exit status, None while running
    traceback       \* the uncaught exception that ended the process, if any

vars == << argv, disk, fs, pc, thresholds, roh_mins, base_cfg, bam_list, idx,
           success_count, success, attempts, outcomes, cmds, engine_calls,
           prompts, answer, report, exit_status, traceback >>

\* ------------------------------------------------------------ command line

DefaultCores == 8
DefaultMinDepth == 10
MaxThreads == 64
DefaultThreshold == 50
DefaultRohMin == 200

\* The namespace parse_args() returns for argv: the options as given, the
\* declared defaults for those left out.
Namespace(a) ==
    [ help |-> a.help, bam |-> a.bam, bam_list |-> a.bam_list,
      out_prefix |-> a.out_prefix,
      outdir |-> "results", scripts |-> "diversity",
      min_depth |-> DefaultMinDepth,
      cores |-> IF a.cores = None THEN DefaultCores ELSE a.cores[1],
      threshold |-> a.threshold, threshold_list |-> a.threshold_list,
      roh_min |-> a.roh_min, roh_list |-> a.roh_list,
      regions |-> a.regions, rf |-> a.rf,
      snakefile |-> "Snakefile", configfile |-> a.configfile,
      dry_run |-> a.dry_run, unlock |-> a.unlock, force |-> a.force ]

args == Namespace(argv)

\* len(sys.argv) == 1: no option at all.
NoArguments(a) ==
    /\ ~a.help /\ ~a.dry_run /\ ~a.unlock /\ ~a.force
    /\ a.bam = None /\ a.bam_list = None /\ a.out_prefix = None
    /\ a.cores = None /\ a.threshold = << >> /\ a.threshold_list = None
    /\ a.roh_min = << >> /\ a.roh_list = None
    /\ a.regions = None /\ a.rf = None /\ a.configfile = None

\* sys.argv is the program and a lone -h / --help.
OnlyHelp(a) == a.help /\ NoArguments([a EXCEPT !.help = FALSE])

\* A region group that conflicts with nothing.
RegionConflictOff(a) == FALSE

\* region_group: -r and -f are a mutually exclusive group.
RegionConflict(a) == a.regions # None /\ a.rf # None

\* What makes parse_args() end the process with status 2: the required
\* mutually exclusive group -b | -l, and the groups -t | -T, -R | -L, -r | -f.
ArgparseRejects(a) ==
    \/ a.bam # None /\ a.bam_list # None
    \/ a.bam = None /\ a.bam_list = None
    \/ a.threshold # << >> /\ a.threshold_list # None
    \/ a.roh_min # << >> /\ a.roh_list # None
    \/ RegionConflict(a)

\* ----------------------------------------------------------- configuration

\* The clamp without its lower end.
ClampNoFloor(c) == Min(c, MaxThreads)

\* max(1, min(args.cores, 64))
ClampThreads(c) == Max(1, Min(c, MaxThreads))

\* roh_mins[0] if len(roh_mins) == 1 else roh_mins, tagged by its shape.
RohField(mins) ==
    IF Len(mins) = 1 THEN << "scalar", << mins[1] >> >> ELSE << "list", mins >>

\* The base config template of main().
BaseCfg(a, thr, mins) ==
    [ rf |-> a.rf, regions |-> a.regions, scripts |-> a.scripts,
      outdir |-> a.outdir, min_depth |-> a.min_depth, thresholds |-> thr,
      roh_min |-> RohField(mins), angsd_threads |-> ClampThreads(a.cores) ]

\* cfg = base_cfg.copy(); cfg["bam"] = bam_path; cfg["prefix"] = prefix
Specialize(base, bam_path, prefix) ==
    [ rf |-> base.rf, regions |-> base.regions, scripts |-> base.scripts,
      outdir |-> base.outdir, min_depth |-> base.min_depth,
      thresholds |-> base.thresholds, roh_min |-> base.roh_min,
      angsd_threads |-> base.angsd_threads, bam |-> bam_path,
      prefix |-> prefix ]

\* yaml.safe_dump(cfg, sort_keys=False): the keys and values in insertion
\* order.
SafeDump(cfg) ==
    << << "rf", cfg.rf >>, << "regions", cfg.regions >>,
       << "scripts", cfg.scripts >>, << "outdir", cfg.outdir >>,
       << "min_depth", cfg.min_depth >>, << "thresholds", cfg.thresholds >>,
       << "roh_min", cfg.roh_min >>, << "angsd_threads", cfg.angsd_threads >>,
       << "bam", cfg.bam >>, << "prefix", cfg.prefix >> >>

\* The value a document holds for a key.
Field(doc, key) == doc[CHOOSE i \in 1..Len(doc) : doc[i][1] = key][2]

\* f"config_{prefix}.yaml"
ConfigName(prefix) ==
    << "c", "o", "n", "f", "i", "g", "_" >> \o prefix \o << ".", "y", "a", "m", "l" >>

\* cfg_path = args.configfile or f"config_{prefix}.yaml"
CfgPath(a, prefix) ==
    IF Truthy(a.configfile) THEN a.configfile[1] ELSE ConfigName(prefix)

\* os.path.exists(cfg_path)
Exists(files, path) == path \in DOMAIN files

\* open(cfg_path, "w") and the dump: the file holds the document alone.
WriteFile(files, path, doc) ==
    [q \in (DOMAIN files) \cup {path} |-> IF q = path THEN doc ELSE files[q]]

\* A prompt that force does not bypass.
NeedsConfirmIgnoringForce(exists, force) == exists

\* `if os.path.exists(cfg_path) and not args.force`
NeedsConfirm(exists, force) == exists /\ ~force

\* `response not in ['y', 'yes']`, response = input(...).lower().strip()
Declined(line) == Strip(Lower(line)) \notin { << "y" >>, << "y", "e", "s" >> }

\* A command whose concurrency is the clamped thread count.
BuildCmdClamped(a, cfg_path) ==
    << "snakemake", "-s", a.snakefile, "--cores", Str(ClampThreads(a.cores)),
       "--rerun-incomplete", "--printshellcmds", "--configfile", cfg_path >>
    \o (IF a.dry_run THEN << "--dry-run" >> ELSE << >>)
    \o (IF a.unlock THEN << "--unlock" >> ELSE << >>)

\* The snakemake command of one run: --cores is args.cores as given.
BuildCmd(a, cfg_path) ==
    << "snakemake", "-s", a.snakefile, "--cores", Str(a.cores),
       "--rerun-incomplete", "--printshellcmds", "--configfile", cfg_path >>
    \o (IF a.dry_run THEN << "--dry-run" >> ELSE << >>)
    \o (IF a.unlock THEN << "--unlock" >> ELSE << >>)

\* A batch that fails only when nothing succeeded.
BatchFailedIfNone(count, total) == count = 0

\* `if success_count < len(bam_list): sys.exit(1)`
BatchFailed(count, total) == count < total

\* A loop that stops at the first run that returns False.
NextIndexBreak(i, ret, total) == IF ret THEN i + 1 ELSE total + 1

\* `for bam_path, prefix in bam_list`: the loop goes on to the next entry
\* whatever the run returned.
NextIndex(i, ret, total) == i + 1


\* ------------------------------------------------------------------ inputs

a_bam == << "a", ".", "b", "a", "m" >>
pA == << "p", "A" >>
ThresholdListPath == << "t", ".", "t", "x", "t" >>
RohListPath == << "r", ".", "t", "x", "t" >>
BamListPath == << "l", ".", "t", "x", "t" >>
ConfigOverride == << "c", ".", "y", "m", "l" >>
RegionString == << "c", "h", "r", "1", ":" >>
RegionFile == << "r", "f" >>

\* Lines of a sample list: blank, a comment, a path with a prefix, a path.
BamLines ==
    { << " " >>,
      << "#", "c", ".", "b", "a", "m" >>,
      << "a", ".", "b", "a", "m", " ", "p", "A" >>,
      << "/", "d", "/", "b", ".", "b", "a", "m" >> }

\* Lines of a numeric list: blank, a comment, two numbers, not a number.
NumLines ==
    { << " " >>,
      << "#", "1" >>,
      << "0", ".", "1" >>,
      << " ", ".", "5", " " >>,
      << "1", "x" >> }

SeqsUpTo(S, n) == UNION { [1..k -> S] : k \in 0..n }

NoFile == [exists |-> FALSE, lines |-> << >>]
FileOf(lines) == [exists |-> TRUE, lines |-> lines]

BamFiles == {NoFile} \cup { FileOf(l) : l \in SeqsUpTo(BamLines, MaxBamLines) }
NumFiles == {NoFile} \cup { FileOf(l) : l \in SeqsUpTo(NumLines, MaxNumLines) }

TwoBams == FileOf(<< << "a", ".", "b", "a", "m", " ", "p", "A" >>,
                     << "/", "d", "/", "b", ".", "b", "a", "m" >> >>)
OneNumber == FileOf(<< << "0", ".", "1" >> >>)

Disk(thr, roh, bams) ==
    [p \in {ThresholdListPath, RohListPath, BamListPath} |->
        IF p = ThresholdListPath THEN thr
        ELSE IF p = RohListPath THEN roh ELSE bams]

\* An artifact left at a path by something else: no run writes it, since
\* every run's angsd_threads is at least 1.
StaleCfg ==
    SafeDump([ rf |-> None, regions |-> None, scripts |-> "old",
               outdir |-> "old", min_depth |-> 0, thresholds |-> << >>,
               roh_min |-> << "list", << >> >>, angsd_threads |-> 0,
               bam |-> << >>, prefix |-> << >> ])

\* The artifact paths a run of argv a can name.
ArtifactPaths(a) ==
    IF Truthy(a.configfile) THEN {a.configfile[1]}
    ELSE {ConfigName(pA), ConfigName(<< "b" >>)}

PriorArtifacts(a) ==
    UNION { [S -> {StaleCfg}] : S \in SUBSET ArtifactPaths(a) }

Opt(v) == {None, Some(v)}

BaseArgv ==
    [ help |-> FALSE, bam |-> None, bam_list |-> None, out_prefix |-> None,
      cores |-> None, threshold |-> << >>, threshold_list |-> None,
      roh_min |-> << >>, roh_list |-> None, regions |-> None, rf |-> None,
      configfile |-> None, dry_run |-> FALSE, unlock |-> FALSE,
      force |-> FALSE ]

CoresGiven == {None, Some(0 - 3), Some(0), Some(1), Some(64), Some(65), Some(200)}

\* Command lines that differ in what argparse and the base config read.
ArgvCli ==
    { [BaseArgv EXCEPT !.help = h, !.bam = b, !.bam_list = l,
                       !.out_prefix = o,
                       !.cores = c, !.regions = r, !.rf = f,
                       !.threshold = t, !.threshold_list = tl,
                       !.roh_min = m, !.roh_list = ml,
                       !.dry_run = n, !.force = TRUE] :
        h \in BOOLEAN, b \in Opt(a_bam), l \in Opt(BamListPath), o \in Opt(pA),
        c \in CoresGiven, r \in Opt(RegionString), f \in Opt(RegionFile),
        t \in { << >>, << 50, 100 >> }, tl \in Opt(ThresholdListPath),
        m \in { << >>, << 100 >>, << 100, 300 >> }, ml \in Opt(RohListPath),
        n \in BOOLEAN }

\* Command lines that read both numeric lists, for one BAM or for a list.
ArgvLists ==
    { [BaseArgv EXCEPT !.bam = b, !.bam_list = l, !.out_prefix = Some(pA),
                       !.threshold_list = Some(ThresholdListPath),
                       !.roh_list = Some(RohListPath),
                       !.dry_run = TRUE, !.force = TRUE] :
        << b, l >> \in { << Some(a_bam), None >>, << None, Some(BamListPath) >> } }

\* Command lines that differ in how a run goes.  The prefix, which a list
\* ignores, and --unlock, which only adds a word to the command, vary with
\* -b here.
ArgvRun ==
    { [BaseArgv EXCEPT !.help = h, !.bam = bl[1], !.bam_list = bl[2],
                       !.out_prefix = bl[3], !.unlock = bl[4],
                       !.configfile = C, !.dry_run = n, !.force = F] :
        h \in BOOLEAN,
        bl \in { << None, None, None, FALSE >>,
                 << Some(a_bam), None, None, FALSE >>,
                 << Some(a_bam), None, Some(pA), FALSE >>,
                 << Some(a_bam), None, Some(pA), TRUE >>,
                 << None, Some(BamListPath), None, FALSE >>,
                 << Some(a_bam), Some(BamListPath), Some(pA), FALSE >> },
        C \in Opt(ConfigOverride), n \in BOOLEAN, F \in BOOLEAN }

IsBatch(a) == a.bam = None /\ a.bam_list # None /\ ~a.help

InitRest ==
    /\ pc = "start"
    /\ thresholds = << >> /\ roh_mins = << >> /\ base_cfg = None
    /\ bam_list = << >> /\ idx = 1 /\ success_count = 0 /\ success = None
    /\ attempts = << >> /\ outcomes = << >> /\ cmds = << >>
    /\ engine_calls = << >> /\ prompts = 0 /\ answer = None
    /\ report = None /\ exit_status = None /\ traceback = None

InitCli ==
    /\ argv \in ArgvCli
    /\ disk = Disk(OneNumber, OneNumber, TwoBams)
    /\ fs \in { [p \in S |-> StaleCfg] : S \in { {}, ArtifactPaths(argv) } }
    /\ InitRest

InitLists ==
    /\ argv \in ArgvLists
    /\ disk \in { Disk(t, r, TwoBams) : t \in NumFiles, r \in NumFiles }
    /\ fs = [p \in {} |-> StaleCfg]
    /\ InitRest

InitRun ==
    /\ argv \in ArgvRun
    /\ disk \in { Disk(OneNumber, OneNumber, b) :
                    b \in IF IsBatch(argv) THEN BamFiles ELSE {TwoBams} }
    /\ fs \in PriorArtifacts(argv)
    /\ InitRest

Init == InitCli \/ InitLists \/ InitRun

\* The lines the prompt can read.
Answers == { << "y" >>, << "Y", "e", "s", " " >>, << "n" >>, << >> }

\* subprocess.call's return: 0, a failure code, a signal's.
EngineCodes == { 0, 1, 0 - 9 }


\* ------------------------------------------------------------------ main()

run_vars == << attempts, outcomes, cmds, engine_calls, prompts, answer, fs >>
main_vars == << thresholds, roh_mins, base_cfg, bam_list, idx, success_count,
                success >>

\* sys.exit(status)
Exit(status) ==
    /\ pc' = "exited"
    /\ exit_status' = Some(status)
    /\ UNCHANGED << report, traceback >>

\* An exception nothing catches: the traceback, then exit status 1.
Raise(exc) ==
    /\ pc' = "exited"
    /\ exit_status' = Some(1)
    /\ traceback' = Some(exc)
    /\ UNCHANGED report

Goto(label) ==
    /\ pc' = label
    /\ UNCHANGED << report, exit_status, traceback >>

\* The custom help handling before the parser exists.
ShowHelpEarly ==
    /\ pc = "start"
    /\ NoArguments(argv) \/ OnlyHelp(argv)
    /\ Exit(0)
    /\ UNCHANGED << argv, disk, main_vars, run_vars >>

\* p.parse_args() rejects the command line.
ArgparseError ==
    /\ pc = "start"
    /\ ~(NoArguments(argv) \/ OnlyHelp(argv))
    /\ ArgparseRejects(argv)
    /\ Exit(2)
    /\ UNCHANGED << argv, disk, main_vars, run_vars >>

\* `if args.help`
ShowHelp ==
    /\ pc = "start"
    /\ ~(NoArguments(argv) \/ OnlyHelp(argv))
    /\ ~ArgparseRejects(argv)
    /\ args.help
    /\ Exit(0)
    /\ UNCHANGED << argv, disk, main_vars, run_vars >>

ParseArgs ==
    /\ pc = "start"
    /\ ~(NoArguments(argv) \/ OnlyHelp(argv))
    /\ ~ArgparseRejects(argv)
    /\ ~args.help
    /\ Goto("validate")
    /\ UNCHANGED << argv, disk, main_vars, run_vars >>

\* Validate single BAM requires prefix.
ValidatePrefix ==
    /\ pc = "validate"
    /\ IF Truthy(args.bam) /\ ~Truthy(args.out_prefix)
       THEN Exit(1)
       ELSE Goto("thresholds")
    /\ UNCHANGED << argv, disk, main_vars, run_vars >>

\* Handle thresholds.
HandleThresholds ==
    /\ pc = "thresholds"
    /\ IF Truthy(args.threshold_list)
       THEN LET r == read_file_list(disk[args.threshold_list[1]], "thresholds") IN
            IF r.ok THEN thresholds' = r.items /\ Goto("roh")
            ELSE thresholds' = thresholds /\ Exit(1)
       ELSE /\ thresholds' = IF args.threshold # << >> THEN args.threshold
                             ELSE << DefaultThreshold >>
            /\ Goto("roh")
    /\ UNCHANGED << argv, disk, roh_mins, base_cfg, bam_list, idx,
                    success_count, success, run_vars >>

\* Handle ROH thresholds.
HandleRoh ==
    /\ pc = "roh"
    /\ IF Truthy(args.roh_list)
       THEN LET r == read_file_list(disk[args.roh_list[1]], "ROH thresholds") IN
            IF r.ok THEN roh_mins' = r.items /\ Goto("base_cfg")
            ELSE roh_mins' = roh_mins /\ Exit(1)
       ELSE /\ roh_mins' = IF args.roh_min # << >> THEN args.roh_min
                           ELSE << DefaultRohMin >>
            /\ Goto("base_cfg")
    /\ UNCHANGED << argv, disk, thresholds, base_cfg, bam_list, idx,
                    success_count, success, run_vars >>

\* Base config template.
BuildBaseCfg ==
    /\ pc = "base_cfg"
    /\ base_cfg' = Some(BaseCfg(args, thresholds, roh_mins))
    /\ Goto("bams")
    /\ UNCHANGED << argv, disk, thresholds, roh_mins, bam_list, idx,
                    success_count, success, run_vars >>

\* Handle BAMs: read the list and enter the loop, or go to the single run.
HandleBams ==
    /\ pc = "bams"
    /\ IF Truthy(args.bam_list)
       THEN LET r == read_file_list(disk[args.bam_list[1]], "bams") IN
            IF r.ok THEN bam_list' = r.items /\ Goto("loop")
            ELSE bam_list' = bam_list /\ Exit(1)
       ELSE bam_list' = bam_list /\ Goto("single")
    /\ UNCHANGED << argv, disk, thresholds, roh_mins, base_cfg, idx,
                    success_count, success, run_vars >>

\* ------------------------------------------------------------ run_single_bam

\* A call of run_single_bam is due: the loop has an entry left, or the
\* single BAM is next.
RunDue == (pc = "loop" /\ idx <= Len(bam_list)) \/ pc = "single"

\* The (bam_path, prefix) of the call that is due.
Request ==
    IF pc = "loop" THEN bam_list[idx]
    ELSE << args.bam[1], args.out_prefix[1] >>

RunCfg == Specialize(base_cfg[1], Request[1], Request[2])
RunCfgPath == CfgPath(args, Request[2])
RunCmd == BuildCmd(args, RunCfgPath)

\* The call begins.
Enter(outcome) ==
    /\ attempts' = Append(attempts, Request)
    /\ outcomes' = Append(outcomes, outcome)

\* The call returns ret to main(): the loop counts it and goes on, the
\* single run keeps it.
Return(ret) ==
    /\ IF pc = "loop"
       THEN /\ success_count' = IF ret THEN success_count + 1 ELSE success_count
            /\ idx' = NextIndex(idx, ret, Len(bam_list))
            /\ success' = success
            /\ Goto("loop")
       ELSE /\ success' = Some(ret)
            /\ UNCHANGED << success_count, idx >>
            /\ Goto("single_done")
    /\ UNCHANGED << argv, disk, thresholds, roh_mins, base_cfg, bam_list >>

\* The call raises: main() does not catch it.
Crash(exc) ==
    /\ Raise(exc)
    /\ UNCHANGED << argv, disk, main_vars >>

\* The overwrite check is passed: no prompt was needed, or the line read
\* is y / yes.
Confirmed ==
    IF NeedsConfirm(Exists(fs, RunCfgPath), args.force)
    THEN \E line \in Answers :
            /\ ~Declined(line)
            /\ prompts' = prompts + 1
            /\ answer' = Some(line)
    ELSE /\ prompts' = prompts
         /\ answer' = None

\* The prompt's answer is not y / yes: "Skipping this BAM.", return False.
RunSkipped ==
    /\ RunDue
    /\ NeedsConfirm(Exists(fs, RunCfgPath), args.force)
    /\ \E line \in Answers :
          /\ Declined(line)
          /\ answer' = Some(line)
    /\ prompts' = prompts + 1
    /\ Enter("skipped")
    /\ UNCHANGED << fs, cmds, engine_calls >>
    /\ Return(FALSE)

\* input() finds the end of its input: EOFError.
RunPromptEOF ==
    /\ RunDue
    /\ NeedsConfirm(Exists(fs, RunCfgPath), args.force)
    /\ prompts' = prompts + 1
    /\ answer' = None
    /\ Enter("eof_error")
    /\ UNCHANGED << fs, cmds, engine_calls >>
    /\ Crash("EOFError")

\* open(cfg_path, "w") fails (permissions, no such directory, no space):
\* OSError, with the file as it was.
RunWriteFails ==
    /\ RunDue
    /\ Confirmed
    /\ Enter("io_error")
    /\ UNCHANGED << fs, cmds, engine_calls >>
    /\ Crash("OSError")

\* The config is written, the command built and printed; dry run: return
\* True without running it.
RunDry ==
    /\ RunDue
    /\ Confirmed
    /\ fs' = WriteFile(fs, RunCfgPath, SafeDump(RunCfg))
    /\ cmds' = Append(cmds, RunCmd)
    /\ args.dry_run
    /\ Enter("dry")
    /\ UNCHANGED engine_calls
    /\ Return(TRUE)

\* The config is written, the command built, printed and run: return
\* whether snakemake's exit code is 0.
RunEngine ==
    /\ RunDue
    /\ Confirmed
    /\ fs' = WriteFile(fs, RunCfgPath, SafeDump(RunCfg))
    /\ cmds' = Append(cmds, RunCmd)
    /\ ~args.dry_run
    /\ \E code \in EngineCodes :
          /\ engine_calls' = Append(engine_calls, [cmd |-> RunCmd, code |-> code])
          /\ Enter(IF code # 0 THEN "engine_failed" ELSE "ok")
          /\ Return(code = 0)

\* After the loop: the summary line, and exit status 1 if a run did not
\* succeed.
FinishBatch ==
    /\ pc = "loop"
    /\ idx > Len(bam_list)
    /\ report' = Some(<< success_count, Len(bam_list) >>)
    /\ pc' = "exited"
    /\ exit_status' = IF BatchFailed(success_count, Len(bam_list))
                      THEN Some(1) ELSE Some(0)
    /\ UNCHANGED << traceback, argv, disk, main_vars, run_vars >>

\* Single BAM: `if not success: sys.exit(1)`.
FinishSingle ==
    /\ pc = "single_done"
    /\ IF ~success[1] THEN Exit(1) ELSE Exit(0)
    /\ UNCHANGED << argv, disk, main_vars, run_vars >>

Next ==
    \/ ShowHelpEarly
    \/ ArgparseError
    \/ ShowHelp
    \/ ParseArgs
    \/ ValidatePrefix
    \/ HandleThresholds
    \/ HandleRoh
    \/ BuildBaseCfg
    \/ HandleBams
    \/ RunSkipped
    \/ RunPromptEOF
    \/ RunWriteFails
    \/ RunDry
    \/ RunEngine
    \/ FinishBatch
    \/ FinishSingle

Spec == Init /\ [][Next]_vars


\* ================================================================== claims

\* No run has written an artifact: every file is one that was there before.
Untouched == \A p \in DOMAIN fs : fs[p] = StaleCfg

\* The artifacts the runs have written.
WrittenPaths == { p \in DOMAIN fs : fs[p] # StaleCfg }

Succeeded(outcome) == outcome \in {"ok", "dry"}
Returned(outcome) == outcome \in {"ok", "dry", "engine_failed", "skipped"}

SucceededCount == Cardinality({ i \in 1..Len(outcomes) : Succeeded(outcomes[i]) })

\* The batch loop was entered (the sample list was read).
LoopEntered == bam_list # << >>

\* The command line got past the parser and the help handling.
Parsed == /\ ~NoArguments(argv) /\ ~OnlyHelp(argv)
          /\ ~argv.help
          /\ (argv.bam = None) # (argv.bam_list = None)
          /\ ~(argv.threshold # << >> /\ argv.threshold_list # None)
          /\ ~(argv.roh_min # << >> /\ argv.roh_list # None)
          /\ ~(argv.regions # None /\ argv.rf # None)

\* The usable (non-blank, non-comment) lines of the sample list, in order.
SampleLines == SelectSeq(disk[BamListPath].lines, Usable)

\* A step that is one call of run_single_bam.
RunStep == Len(attempts') = Len(attempts) + 1

\* C1 (as claimed): with dry-run requested no step writes or changes a
\* configuration artifact and no step runs the engine, whatever the other
\* flags and the prior state of the artifact path.
C1_DryRunPurity ==
    [][argv.dry_run => fs' = fs /\ engine_calls' = engine_calls]_vars

\* C2: a finished batch reports k/N, k the runs that succeeded (a dry run
\* counts) and N the runs attempted, and exits 0 exactly when k = N; a
\* nonzero engine exit code in any run makes the exit status nonzero; the
\* single-sample exit status is nonzero exactly when its run did not succeed.
C2_FailureAggregation ==
    /\ report # None =>
          /\ pc = "exited"
          /\ report = Some(<< SucceededCount, Len(attempts) >>)
          /\ Len(attempts) = Len(SampleLines)
          /\ (exit_status = Some(0)) <=> (SucceededCount = Len(attempts))
    /\ (pc = "exited" /\ \E j \in 1..Len(engine_calls) : engine_calls[j].code # 0)
          => exit_status \notin {None, Some(0)}
    /\ (pc = "exited" /\ LoopEntered) =>
          ((exit_status = Some(0)) <=>
              (SucceededCount = Len(SampleLines)))
    /\ (pc = "exited" /\ ~LoopEntered /\ attempts # << >>) =>
          ((exit_status # Some(0)) <=> ~Succeeded(outcomes[1]))

\* C2's case: three runs, the second with a nonzero engine exit code: 2/3
\* and a nonzero exit status.
C2_Witness ==
    /\ outcomes = << "ok", "engine_failed", "ok" >>
    /\ engine_calls[2].code # 0
    /\ report = Some(<< 2, 3 >>)
    /\ exit_status = Some(1)

\* C3: the batch makes its run attempts one per usable line of the sample
\* list, in file order, none twice; each attempt has returned (or ended the
\* process) before the next begins; and when every attempt returned
\* (success, engine failure or skip) the process ends only after all N.
C3_NoShortCircuit ==
    LoopEntered =>
       LET lines == SampleLines IN
       /\ Len(bam_list) = Len(lines)
       /\ Len(attempts) <= Len(lines)
       /\ Len(outcomes) = Len(attempts)
       /\ \A i \in 1..Len(attempts) :
             /\ attempts[i] = bam_list[i]
             /\ attempts[i][1] = FirstWord(LStrip(lines[i]))
       /\ pc = "loop" => idx = Len(attempts) + 1
       /\ (pc = "exited" /\ \A i \in 1..Len(outcomes) : Returned(outcomes[i]))
             => Len(attempts) = Len(lines)

\* C3's case: three lines; the first run fails in the engine, the second is
\* skipped, and the third is still attempted.
C3_Witness ==
    /\ pc = "exited"
    /\ Len(SampleLines) = 3
    /\ outcomes = << "engine_failed", "skipped", "ok" >>

\* The prompt's answer after lower() and strip() is neither y nor yes.
AnswerIsNo(line) == Strip(Lower(line)) \notin { << "y" >>, << "y", "e", "s" >> }

\* C4: a run whose target exists, without force, and whose prompt is
\* answered with anything but y / yes writes nothing, builds and runs no
\* command, raises nothing, and the loop goes on to the next request; the
\* prompt is made only when the target exists and force is not set.
C4_SkipEffects ==
    [][ /\ (RunStep /\ answer' # None /\ AnswerIsNo(answer'[1])) =>
             /\ Exists(fs, RunCfgPath) /\ ~argv.force
             /\ fs' = fs
             /\ engine_calls' = engine_calls
             /\ cmds' = cmds
             /\ traceback' = None
             /\ outcomes'[Len(outcomes')] = "skipped"
             /\ pc = "loop" => (pc' = "loop" /\ idx' = idx + 1)
        /\ (prompts' # prompts) =>
             (RunStep /\ Exists(fs, RunCfgPath) /\ ~argv.force)
        /\ (RunStep /\ (argv.force \/ ~Exists(fs, RunCfgPath))) =>
             (prompts' = prompts /\ answer' = None) ]_vars

\* C4's case: a run was skipped, its artifact is as it was, and a later
\* request was attempted.
C4_Witness ==
    /\ Len(outcomes) = 2
    /\ outcomes[1] = "skipped"
    /\ Untouched
    /\ engine_calls = << >>
    /\ pc = "loop"

\* C5 (as claimed): a skipped run does not count as a success, and a batch
\* or single invocation whose runs all succeeded or were skipped, none
\* failing, ends with exit status 0.
C5_SkipAccounting ==
    /\ success_count <= SucceededCount
    /\ ( /\ pc = "exited" /\ traceback = None /\ attempts # << >>
         /\ LoopEntered => report # None
         /\ \A i \in 1..Len(outcomes) : outcomes[i] \in {"ok", "dry", "skipped"} )
       => exit_status = Some(0)

\* C6 (as claimed): a configuration artifact that cannot be written fails
\* its own run only: the engine is not run for it, every later request is
\* still attempted and the k/N report is made at the end.
C6_WriteErrorContained ==
    (pc = "exited" /\ LoopEntered
        /\ \E i \in 1..Len(outcomes) : outcomes[i] = "io_error")
    => /\ Len(attempts) = Len(bam_list)
       /\ report # None

\* A list file read_file_list does not accept: missing, no usable line, or
\* (numeric lists) a usable line that is no number.
BadList(file, numeric) ==
    \/ ~file.exists
    \/ \A i \in 1..Len(file.lines) : ~Usable(file.lines[i])
    \/ numeric /\ \E i \in 1..Len(file.lines) :
                     Usable(file.lines[i]) /\ ~IsFloat(file.lines[i])

\* An input the validation rejects.
InvalidInput ==
    \/ argv.bam # None /\ argv.out_prefix = None
    \/ argv.threshold_list # None /\ BadList(disk[ThresholdListPath], TRUE)
    \/ argv.roh_list # None /\ BadList(disk[RohListPath], TRUE)
    \/ argv.bam_list # None /\ BadList(disk[BamListPath], FALSE)

\* C7: with -b and no prefix, or a referenced sample, threshold or ROH list
\* that is missing, has no usable entry or (numeric) holds a line that is
\* no number, the process never reaches a run: it ends with status 1, with
\* nothing written, nothing executed and no list partly processed.
C7_ValidationFirst ==
    (Parsed /\ InvalidInput) =>
       /\ pc \in {"start", "validate", "thresholds", "roh", "base_cfg", "bams",
                  "exited"}
       /\ attempts = << >> /\ cmds = << >> /\ engine_calls = << >>
       /\ Untouched
       /\ bam_list = << >>
       /\ report = None
       /\ pc = "exited" => exit_status = Some(1) /\ traceback = None
       /\ BadList(disk[ThresholdListPath], TRUE) /\ argv.threshold_list # None
             => thresholds = << >> /\ base_cfg = None
       /\ BadList(disk[RohListPath], TRUE) /\ argv.roh_list # None
             => roh_mins = << >> /\ base_cfg = None

\* C7's case: a threshold list whose first line is a number and whose
\* second is not: status 1, and the first value was not used.
C7_Witness ==
    /\ Parsed
    /\ argv.threshold_list # None
    /\ disk[ThresholdListPath].lines = << << "0", ".", "1" >>, << "1", "x" >> >>
    /\ pc = "exited"
    /\ exit_status = Some(1)

\* max(1, min(c, 64)) written out.
ExpectedThreads(c) == IF c < 1 THEN 1 ELSE IF c > 64 THEN 64 ELSE c

\* C8: every configuration written holds angsd_threads = max(1, min(c, 64))
\* for the requested core count c, a value in 1..64.
C8_ClampLaw ==
    \A p \in WrittenPaths :
        /\ Field(fs[p], "angsd_threads") = ExpectedThreads(args.cores)
        /\ Field(fs[p], "angsd_threads") \in 1..64

\* C8's case: 200 cores asked, two configurations written in a batch, each
\* with 64 threads.
C8_Witness ==
    /\ args.cores = 200
    /\ Cardinality(WrittenPaths) = 2
    /\ \A p \in WrittenPaths : Field(fs[p], "angsd_threads") = 64

\* The angsd_threads of the artifact a command names.
ThreadsOf(cmd) == Field(fs[cmd[9]], "angsd_threads")

\* C9 (as claimed): the concurrency of every command built is the thread
\* count written to the run's artifact, hence in 1..64.
C9_InvocationConcurrency ==
    \A i \in 1..Len(cmds) :
        /\ cmds[i][4] = "--cores"
        /\ cmds[i][5] = Str(ThreadsOf(cmds[i]))

\* C9 (amended): the concurrency of every command built, and of every
\* command run, is the requested core count as given (8 by default), not
\* clamped; it equals the artifact's angsd_threads exactly when the
\* requested count is in 1..64.
C9_ConcurrencyIsRequestedCores ==
    /\ \A i \in 1..Len(cmds) :
          /\ cmds[i][4] = "--cores"
          /\ cmds[i][5] = Str(IF argv.cores = None THEN 8 ELSE argv.cores[1])
          /\ (cmds[i][5] = Str(ThreadsOf(cmds[i]))) <=> (args.cores \in 1..64)
    /\ \A j \in 1..Len(engine_calls) :
          \E i \in 1..Len(cmds) : engine_calls[j].cmd = cmds[i]

\* C9's case: 200 cores asked: the engine is run with --cores 200 while the
\* artifact holds 64 threads.
C9_Witness ==
    /\ engine_calls # << >>
    /\ engine_calls[1].cmd[5] = << "2", "0", "0" >>
    /\ ThreadsOf(engine_calls[1].cmd) = 64

\* The command line gives both -r and -f and nothing else the parser
\* rejects, and is not a bare help request.
BothRegions ==
    /\ argv.regions # None /\ argv.rf # None
    /\ (argv.bam = None) # (argv.bam_list = None)
    /\ ~(argv.threshold # << >> /\ argv.threshold_list # None)
    /\ ~(argv.roh_min # << >> /\ argv.roh_list # None)

\* C10 (as claimed): a command line with both a region string and a region
\* file is accepted, and both reach the rf and regions fields of every
\* run's configuration.
C10_RegionPermissive ==
    /\ (BothRegions /\ pc = "exited") => exit_status # Some(2)
    /\ \A p \in WrittenPaths :
          /\ Field(fs[p], "rf") = argv.rf
          /\ Field(fs[p], "regions") = argv.regions

\* C10 (amended): a command line with both a region string and a region
\* file is rejected by the argument parser: exit status 2 before any run,
\* nothing written or executed.  With at most one of them, what is given
\* reaches the rf / regions field of every run's configuration unchanged
\* and the other field is None.
C10_RegionExclusive ==
    /\ (argv.regions # None /\ argv.rf # None) =>
          /\ pc \in {"start", "exited"}
          /\ pc = "exited" => exit_status = Some(2)
          /\ attempts = << >> /\ engine_calls = << >> /\ Untouched
    /\ \A p \in WrittenPaths :
          /\ Field(fs[p], "rf") = argv.rf
          /\ Field(fs[p], "regions") = argv.regions
          /\ argv.rf = None \/ argv.regions = None

\* C10's case: -b, -o, -r and -f together: the parser ends the process
\* with status 2.
C10_Witness ==
    /\ BothRegions
    /\ argv.bam # None /\ argv.out_prefix # None
    /\ pc = "exited"
    /\ exit_status = Some(2)

====
